---- MODULE Spec2Model ----
(***************************************************************************)
(* Model of the organisation licence scanner (src/src/index.ts): the       *)
(* bounded fan-out over the repositories of an organisation, the           *)
(* per-repository processing of an SBOM document (relationship map, root   *)
(* detection, deduplication, licence resolution), the classification into  *)
(* the two aggregation maps and their serialisation.                       *)
(***************************************************************************)
EXTENDS Integers, Sequences, FiniteSets, TLC

VARIABLES
    orgRepos,            \* repositories of the organisation: seq of [name, archived]
    licenseBlacklist,    \* config.yml blacklist
    ignorePackagesRegex, \* config.yml ignorePackagesRegex
    jobs,                \* taskQueue.jobs: units pushed and not yet started
    pending,             \* taskQueue.pending: units started and not yet settled
    phase,               \* "loaded" | "running" | "ended" | "serialized"
    pc,                  \* position of every unit in its promise chain
    res,                 \* value carried along the promise chain of every unit
    work,                \* locals of the async handler [5b]/[5c] of every unit
    nScanned, nFailed, nAffected,
    blacklistMap, noLicenseMap,
    problems,            \* result of the completion continuation
    outcome,             \* per unit, how often it incremented nFailed, nScanned, nAffected
    report               \* [6]..[7d]: the rendered text, the comment on the issue, the decision

vars == <<orgRepos, licenseBlacklist, ignorePackagesRegex, jobs, pending, phase,
          pc, res, work, nScanned, nFailed, nAffected, blacklistMap,
          noLicenseMap, problems, outcome, report>>

-----------------------------------------------------------------------------
(* Bounds of the model.                                                    *)

MaxRepos == 3
MaxPkgs == 2
MaxEdges == 3

-----------------------------------------------------------------------------
(* JavaScript values.                                                      *)

Undefined == "<undefined>"

Truthy(x) == x \notin {Undefined, ""}

Min(a, b) == IF a <= b THEN a ELSE b

Max(a, b) == IF a >= b THEN a ELSE b

(* A JavaScript Map: the sequence of its entries [k, v] in insertion order. *)
MapHas(map, key) == \E i \in 1..Len(map) : map[i].k = key

MapGet(map, key) ==
    IF MapHas(map, key)
    THEN map[CHOOSE i \in 1..Len(map) : map[i].k = key].v
    ELSE Undefined

MapSet(map, key, val) ==
    IF MapHas(map, key)
    THEN LET i == CHOOSE n \in 1..Len(map) : map[n].k = key
         IN  SubSeq(map, 1, i - 1) \o <<[k |-> key, v |-> val]>>
                 \o SubSeq(map, i + 1, Len(map))
    ELSE Append(map, [k |-> key, v |-> val])

-----------------------------------------------------------------------------
(* [5b] The relationship map of one SBOM document.                         *)

(* A variant of RelStep without the !map.has(spdxElementId) condition: the *)
(* last edge of a source id wins.                                          *)
RelStepLastWins(map, edge) ==
    IF Truthy(edge.spdxElementId) /\ Truthy(edge.relatedSpdxElement)
    THEN MapSet(map, edge.spdxElementId, edge.relatedSpdxElement)
    ELSE map

(* One step of the reduce: the first edge of a source id wins. *)
RelStep(map, edge) ==
    IF /\ Truthy(edge.spdxElementId)
       /\ Truthy(edge.relatedSpdxElement)
       /\ ~MapHas(map, edge.spdxElementId)
    THEN MapSet(map, edge.spdxElementId, edge.relatedSpdxElement)
    ELSE map

RECURSIVE RelReduce(_, _)
RelReduce(map, edges) ==
    IF edges = <<>> THEN map
    ELSE RelReduce(RelStep(map, Head(edges)), Tail(edges))

(* (relationships ?? []).reduce(...): a document without relationships is *)
(* one with the empty list.                                                *)
RelationshipMap(relationships) == RelReduce(<<>>, relationships)

(* A variant of PartitionStep that keeps the product among the             *)
(* dependencies.                                                           *)
PartitionStepKeepMain(acc, pkg) ==
    LET p == IF Truthy(pkg.SPDXID) THEN pkg ELSE [pkg EXCEPT !.SPDXID = "NOTFOUND"]
    IN  [deps |-> Append(acc.deps, p),
         mainSpdxId |-> IF p.versionInfo # "main" THEN acc.mainSpdxId ELSE p.SPDXID]

(* [5b] The product (version "main") is split from its dependencies. *)
PartitionStep(acc, pkg) ==
    LET p == IF Truthy(pkg.SPDXID) THEN pkg ELSE [pkg EXCEPT !.SPDXID = "NOTFOUND"]
    IN  IF p.versionInfo # "main"
        THEN [deps |-> Append(acc.deps, p), mainSpdxId |-> acc.mainSpdxId]
        ELSE [deps |-> acc.deps, mainSpdxId |-> p.SPDXID]

RECURSIVE PartitionReduce(_, _)
PartitionReduce(acc, packages) ==
    IF packages = <<>> THEN acc
    ELSE PartitionReduce(PartitionStep(acc, Head(packages)), Tail(packages))

(* A variant of Partition in which the first node is the root unless a     *)
(* node of version "main" follows.                                         *)
PartitionRootDefaultsToFirst(packages) ==
    PartitionReduce([deps |-> <<>>,
                     mainSpdxId |-> IF packages = <<>> \/ ~Truthy(packages[1].SPDXID)
                                    THEN "" ELSE packages[1].SPDXID],
                    packages)

Partition(packages) == PartitionReduce([deps |-> <<>>, mainSpdxId |-> ""], packages)

(* A variant of UniqueStep that tells nodes apart by name and version. *)
UniqueStepByNameAndVersion(state, current) ==
    IF Truthy(current.name)
       /\ <<current.name, current.versionInfo>> \notin state.uniqueDepNames
    THEN [uniqueDepNames |-> state.uniqueDepNames \cup {<<current.name, current.versionInfo>>},
          uniqueDeps |-> Append(state.uniqueDeps, current)]
    ELSE state

(* A variant of UniqueStep that keeps every named node. *)
UniqueStepKeepAll(state, current) ==
    IF Truthy(current.name)
    THEN [uniqueDepNames |-> state.uniqueDepNames \cup {current.name},
          uniqueDeps |-> Append(state.uniqueDeps, current)]
    ELSE state

(* [5c] Unique packages: the first node of every name. *)
UniqueStep(state, current) ==
    IF Truthy(current.name) /\ current.name \notin state.uniqueDepNames
    THEN [uniqueDepNames |-> state.uniqueDepNames \cup {current.name},
          uniqueDeps |-> Append(state.uniqueDeps, current)]
    ELSE state

RECURSIVE UniqueReduce(_, _)
UniqueReduce(state, deps) ==
    IF deps = <<>> THEN state
    ELSE UniqueReduce(UniqueStep(state, Head(deps)), Tail(deps))

UniqueDeps(deps) ==
    UniqueReduce([uniqueDepNames |-> {}, uniqueDeps |-> <<>>], deps).uniqueDeps

(* A variant of IsTransitiveDep in which a missing entry reads as "", the   *)
(* root id of a document without a product.                                *)
IsTransitiveDepDefaultEmpty(relationshipMap, SPDXID, mainSpdxId) ==
    LET target == MapGet(relationshipMap, IF SPDXID = Undefined THEN "" ELSE SPDXID)
    IN  (IF target = Undefined THEN "" ELSE target) # mainSpdxId

(* relationshipMap.get(SPDXID ?? "") !== mainSpdxId *)
IsTransitiveDep(relationshipMap, SPDXID, mainSpdxId) ==
    MapGet(relationshipMap, IF SPDXID = Undefined THEN "" ELSE SPDXID) # mainSpdxId

PackageData(dep, isTransitiveDep, license, resolveMode) ==
    [name |-> dep.name, isTransitiveDep |-> isTransitiveDep,
     version |-> dep.versionInfo, license |-> license, resolveMode |-> resolveMode]

-----------------------------------------------------------------------------
(* resolveLicenseFromNPM and the map callback of [5c].  A lookup is the    *)
(* record of one unique dependency: the calls made to the registry so far  *)
(* (scope "version" or "latest", with their result), and the package once  *)
(* the callback has returned.                                              *)

NoPackage ==
    [name |-> Undefined, isTransitiveDep |-> FALSE, version |-> Undefined,
     license |-> Undefined, resolveMode |-> Undefined]

Call(dep, scope, result) ==
    [name |-> dep.name,
     version |-> IF scope = "version" THEN dep.versionInfo ELSE Undefined,
     scope |-> scope, result |-> result]

(* The callback up to its first await. *)
StartLookup(dep, relationshipMap, mainSpdxId) ==
    IF Truthy(dep.licenseConcluded)
    THEN [dep |-> dep, stage |-> "done", calls |-> <<>>,
          pkg |-> PackageData(dep,
                              IsTransitiveDep(relationshipMap, dep.SPDXID, mainSpdxId),
                              dep.licenseConcluded, "explicit")]
    ELSE [dep |-> dep, stage |-> "version",
          calls |-> <<Call(dep, "version", "pending")>>, pkg |-> NoPackage]

SettleLast(calls, result) ==
    [calls EXCEPT ![Len(calls)] = [calls[Len(calls)] EXCEPT !.result = result]]

Resolved(l, relationshipMap, mainSpdxId, license, resolveMode) ==
    [l EXCEPT !.stage = "done",
              !.pkg = PackageData(l.dep,
                                  IsTransitiveDep(relationshipMap, l.dep.SPDXID, mainSpdxId),
                                  license, resolveMode)]

(* packageJson(pkgName, {version}) fulfilled: .then, npmCurrVer. *)
CurrVerFulfilled(l, relationshipMap, mainSpdxId, license) ==
    Resolved([l EXCEPT !.calls = SettleLast(l.calls, "ok")],
             relationshipMap, mainSpdxId, license, "npmCurrVer")

(* A variant of CurrVerRejected that gives up without the unscoped call. *)
CurrVerRejectedGiveUp(l, relationshipMap, mainSpdxId) ==
    Resolved([l EXCEPT !.calls = SettleLast(l.calls, "error")],
             relationshipMap, mainSpdxId, "non-NPM", "failed")

(* packageJson(pkgName, {version}) rejected: .catch makes the unscoped call. *)
CurrVerRejected(l, relationshipMap, mainSpdxId) ==
    [l EXCEPT !.stage = "latest",
              !.calls = Append(SettleLast(l.calls, "error"),
                               Call(l.dep, "latest", "pending"))]

(* packageJson(pkgName) fulfilled: npmLatestVer. *)
LatestFulfilled(l, relationshipMap, mainSpdxId, license) ==
    Resolved([l EXCEPT !.calls = SettleLast(l.calls, "ok")],
             relationshipMap, mainSpdxId, license, "npmLatestVer")

(* A variant of LatestRejected that asks the registry once more. *)
LatestRejectedRetry(l, relationshipMap, mainSpdxId) ==
    [l EXCEPT !.calls = Append(SettleLast(l.calls, "error"),
                               Call(l.dep, "latest", "pending"))]

(* packageJson(pkgName) rejected: non-NPM, failed. *)
LatestRejected(l, relationshipMap, mainSpdxId) ==
    Resolved([l EXCEPT !.calls = SettleLast(l.calls, "error")],
             relationshipMap, mainSpdxId, "non-NPM", "failed")

(* uniqueDeps.map(async (...) => ...): every callback runs to its first await. *)
RECURSIVE StartLookups(_, _, _)
StartLookups(uniqueDeps, relationshipMap, mainSpdxId) ==
    IF uniqueDeps = <<>> THEN <<>>
    ELSE <<StartLookup(Head(uniqueDeps), relationshipMap, mainSpdxId)>>
             \o StartLookups(Tail(uniqueDeps), relationshipMap, mainSpdxId)

(* The synchronous part of the async handler of [5b]/[5c]. *)
ParseDocument(sbom) ==
    LET relationshipMap == RelationshipMap(sbom.relationships)
        part == Partition(sbom.packages)
        uniqueDeps == UniqueDeps(part.deps)
    IN  [relationships |-> sbom.relationships,
         packages |-> sbom.packages,
         relationshipMap |-> relationshipMap,
         mainSpdxId |-> part.mainSpdxId,
         deps |-> part.deps,
         lookups |-> StartLookups(uniqueDeps, relationshipMap, part.mainSpdxId)]

-----------------------------------------------------------------------------
(* [5] The aggregation maps: name -> license -> version -> list of         *)
(* {repo, resolveMode, isTransitiveDep}.                                   *)

GetOrCreate(map, key) == IF MapHas(map, key) THEN map ELSE MapSet(map, key, <<>>)

(* A variant of insertPkgIntoMap that sets the name level without looking  *)
(* for it first.                                                           *)
insertPkgIntoMapAlwaysSet(repo, pkg, map) ==
    MapSet(map, pkg.name,
           <<[k |-> pkg.license,
              v |-> <<[k |-> pkg.version,
                       v |-> <<[repo |-> repo, resolveMode |-> pkg.resolveMode,
                                isTransitiveDep |-> pkg.isTransitiveDep]>>]>>]>>)

insertPkgIntoMap(repo, pkg, map) ==
    LET names    == GetOrCreate(map, pkg.name)
        licenses == GetOrCreate(MapGet(names, pkg.name), pkg.license)
        versions == GetOrCreate(MapGet(licenses, pkg.license), pkg.version)
        leaf     == Append(MapGet(versions, pkg.version),
                           [repo |-> repo, resolveMode |-> pkg.resolveMode,
                            isTransitiveDep |-> pkg.isTransitiveDep])
    IN  MapSet(names, pkg.name,
               MapSet(licenses, pkg.license,
                      MapSet(versions, pkg.version, leaf)))

(* new RegExp(regexpStr).test(name), for the patterns without metacharacters: *)
(* the pattern occurs somewhere in the name.                                  *)
Chars(str) ==
    CASE str = "lodash" -> <<"l", "o", "d", "a", "s", "h">>
      [] str = "react"  -> <<"r", "e", "a", "c", "t">>
      [] str = "act"    -> <<"a", "c", "t">>
      [] str = "eslint" -> <<"e", "s", "l", "i", "n", "t">>
      [] OTHER          -> <<>>

RegExpTest(regexpStr, name) ==
    LET pat == Chars(regexpStr)
        txt == Chars(name)
    IN  \E i \in 1..(Len(txt) + 1) :
            /\ i + Len(pat) - 1 <= Len(txt)
            /\ SubSeq(txt, i, i + Len(pat) - 1) = pat

(* A variant of Ignored that tests the first pattern only. *)
IgnoredByFirst(pkg, regexes) ==
    regexes # <<>> /\ RegExpTest(regexes[1], pkg.name)

(* ignoreRegexes.some((regExp) => regExp.test(pkg.name)) *)
Ignored(pkg, regexes) ==
    \E i \in 1..Len(regexes) : RegExpTest(regexes[i], pkg.name)

(* A variant of ClassifyStep with two independent tests instead of         *)
(* if / else if.                                                           *)
ClassifyStepBoth(acc, repo, pkg, blacklist) ==
    LET missing == pkg.license = "Unknown"
        listed == \E i \in 1..Len(blacklist) : blacklist[i] = pkg.license
    IN  [blacklistMap |-> IF listed THEN insertPkgIntoMap(repo, pkg, acc.blacklistMap)
                          ELSE acc.blacklistMap,
         noLicenseMap |-> IF missing THEN insertPkgIntoMap(repo, pkg, acc.noLicenseMap)
                          ELSE acc.noLicenseMap,
         affected |-> acc.affected \/ missing \/ listed]

(* One iteration of the forEach of [5d]. *)
ClassifyStep(acc, repo, pkg, blacklist) ==
    IF pkg.license = "Unknown"
    THEN [blacklistMap |-> acc.blacklistMap,
          noLicenseMap |-> insertPkgIntoMap(repo, pkg, acc.noLicenseMap),
          affected |-> TRUE]
    ELSE IF \E i \in 1..Len(blacklist) : blacklist[i] = pkg.license
    THEN [blacklistMap |-> insertPkgIntoMap(repo, pkg, acc.blacklistMap),
          noLicenseMap |-> acc.noLicenseMap,
          affected |-> TRUE]
    ELSE acc

RECURSIVE ClassifyReduce(_, _, _, _, _)
ClassifyReduce(acc, repo, packages, blacklist, regexes) ==
    IF packages = <<>> THEN acc
    ELSE ClassifyReduce(IF Ignored(Head(packages), regexes) THEN acc
                        ELSE ClassifyStep(acc, repo, Head(packages), blacklist),
                        repo, Tail(packages), blacklist, regexes)

(* a.localeCompare(b): the strings of the model in collation order. *)
Collation ==
    <<"1.0.0", "2.0.0", "alpha", "bravo", "charlie", "delta", "echo", "GPL-3.0",
      "lodash", "MIT", "non-NPM", "react", "Unknown">>

Rank(str) == CHOOSE i \in 1..Len(Collation) : Collation[i] = str

LocaleCompare(a, b) == Rank(a) - Rank(b)

(* The key an array is sorted by. *)
SortKey(e, field) ==
    CASE field = "repo"    -> e.repo
      [] field = "version" -> e.version
      [] field = "license" -> e.license
      [] field = "name"    -> e.name

(* Array.prototype.sort with a localeCompare of keys; the sort is stable:  *)
(* an element goes after the last one that is not greater.                 *)
InsertSorted(sorted, x, field) ==
    LET n == Cardinality({i \in 1..Len(sorted) :
                            LocaleCompare(SortKey(sorted[i], field), SortKey(x, field)) <= 0})
    IN  SubSeq(sorted, 1, n) \o <<x>> \o SubSeq(sorted, n + 1, Len(sorted))

RECURSIVE SortBy(_, _)
SortBy(seq, field) ==
    IF seq = <<>> THEN <<>>
    ELSE InsertSorted(SortBy(SubSeq(seq, 1, Len(seq) - 1), field), seq[Len(seq)], field)

(* Array.from(map, ([k, v]) => ...) at the three levels of a map. *)
RECURSIVE VersionsFrom(_)
VersionsFrom(map) ==
    IF map = <<>> THEN <<>>
    ELSE <<[version |-> Head(map).k, repos |-> SortBy(Head(map).v, "repo")]>>
             \o VersionsFrom(Tail(map))

RECURSIVE LicensesFrom(_)
LicensesFrom(map) ==
    IF map = <<>> THEN <<>>
    ELSE <<[license |-> Head(map).k,
            versions |-> SortBy(VersionsFrom(Head(map).v), "version")]>>
             \o LicensesFrom(Tail(map))

RECURSIVE NamesFrom(_)
NamesFrom(map) ==
    IF map = <<>> THEN <<>>
    ELSE <<[name |-> Head(map).k,
            licenses |-> SortBy(LicensesFrom(Head(map).v), "license")]>>
             \o NamesFrom(Tail(map))

(* A variant of arraifyMap that leaves the names in insertion order. *)
arraifyMapNamesUnsorted(map) == NamesFrom(map)

arraifyMap(map) == SortBy(NamesFrom(map), "name")

(* v.sort(...) sorts the innermost lists of the map itself. *)
RECURSIVE SortLeavesAt(_, _)
SortLeavesAt(map, depth) ==
    IF map = <<>> THEN <<>>
    ELSE <<[k |-> Head(map).k,
            v |-> IF depth = 1 THEN SortBy(Head(map).v, "repo")
                  ELSE SortLeavesAt(Head(map).v, depth - 1)]>>
             \o SortLeavesAt(Tail(map), depth)

SortLeaves(map) == SortLeavesAt(map, 3)

-----------------------------------------------------------------------------
(* The inputs of a run.                                                    *)

(* Repository names, in the order the organisation lists them. *)
RepoNames == <<"delta", "alpha", "charlie", "bravo", "echo">>

Node(id, name, version, license) ==
    [SPDXID |-> id, name |-> name, versionInfo |-> version, licenseConcluded |-> license]

Edge(source, target) == [spdxElementId |-> source, relatedSpdxElement |-> target]

(* res.data.sbom; hasPackages is false for a document without a package list. *)
Sbom(packages, relationships) ==
    [hasPackages |-> TRUE, packages |-> packages, relationships |-> relationships]

SbomWithoutPackages ==
    [hasPackages |-> FALSE, packages |-> <<>>, relationships |-> <<>>]

(* Documents the dependency-graph endpoint answers with in the fan-out:    *)
(* one without a package list; one whose only dependency needs a registry  *)
(* lookup; one with the product, a direct blacklisted dependency and a     *)
(* second node of the same name.                                           *)
SampleDocs ==
    { SbomWithoutPackages,
      Sbom(<<Node("SPDXRef-a", "react", "2.0.0", Undefined)>>, <<>>),
      Sbom(<<Node("SPDXRef-root", "app", "main", Undefined),
             Node("SPDXRef-a", "lodash", "1.0.0", "GPL-3.0"),
             Node("SPDXRef-b", "lodash", "2.0.0", "GPL-3.0"),
                    Node("SPDXRef-c", "react", "2.0.0", "GPL-3.0")>>,
           <<Edge("SPDXRef-a", "SPDXRef-root"), Edge("SPDXRef-b", "SPDXRef-a")>>) }

(* Sequences of at most n elements of S. *)
SeqsUpTo(S, n) == UNION { [1..m -> S] : m \in 0..n }

(* The package nodes and relationship lists of the documents a single unit *)
(* is run on.                                                              *)
UnitNodes ==
    { Node(id, name, version, license) :
        id \in {Undefined, "SPDXRef-a"},
        name \in {Undefined, "lodash", "react"},
        version \in {"main", "1.0.0", "2.0.0"},
        license \in {Undefined, "GPL-3.0"} }

UnitRelationships ==
    { <<>>,
      <<Edge("SPDXRef-a", "NOTFOUND")>>,
      <<Edge("NOTFOUND", "SPDXRef-a"), Edge("SPDXRef-a", "SPDXRef-b")>> }

UnitDocs ==
    { Sbom(packages, relationships) :
        packages \in SeqsUpTo(UnitNodes, MaxPkgs),
        relationships \in UnitRelationships }

(* The relationship lists the relationship map is built from. *)
EdgeIds == {Undefined, "SPDXRef-root", "SPDXRef-a"}

EdgeDocs ==
    { Sbom(<<Node("SPDXRef-root", "app", "main", Undefined),
             Node("SPDXRef-a", "lodash", "1.0.0", Undefined)>>, relationships) :
        relationships \in SeqsUpTo({Edge(s, t) : s \in EdgeIds, t \in EdgeIds}, MaxEdges) }

(* Licences the registry answers with. *)
NpmLicenses == {"MIT", "Unknown"}

BlacklistChoices == {<<"GPL-3.0">>}

IgnoreChoices == {<<>>}

-----------------------------------------------------------------------------
(* State of a unit of work.                                                *)

ResUndefined == [kind |-> "undefined"]

Response(sbom) == [kind |-> "response", sbom |-> sbom]

Result(repo, packages) == [kind |-> "result", repo |-> repo, packages |-> packages]

NoProblems == [kind |-> "undefined", blacklistPkgs |-> <<>>, noLicensePkgs |-> <<>>]

NoOutcome == [failed |-> 0, scanned |-> 0, affected |-> 0]

(* No comment of the bot was found: existingComment is undefined. *)
NoComment == [exists |-> FALSE, body |-> <<>>]

(* Before [6]: nothing rendered, nothing decided.  existingComment is the  *)
(* comment on the issue of the app when the run gets to [6].               *)
NoReport ==
    [stage |-> "none", mdProblems |-> <<>>, existingComment |-> NoComment,
     nDirectDeps |-> 0, nTransitiveDeps |-> 0, reposWithDirectDeps |-> {}]

NoWork ==
    [relationships |-> <<>>, packages |-> <<>>, relationshipMap |-> <<>>,
     mainSpdxId |-> "", deps |-> <<>>, lookups |-> <<>>]

Units == 1..Len(orgRepos)

RepoName(u) == orgRepos[u].name

(* [4] The repositories that are not archived, in order. *)
RECURSIVE ValidFrom(_, _)
ValidFrom(repos, i) ==
    IF i > Len(repos) THEN <<>>
    ELSE IF repos[i].archived THEN ValidFrom(repos, i + 1)
    ELSE <<i>> \o ValidFrom(repos, i + 1)

validOrgRepos == ValidFrom(orgRepos, 1)

nRepos == Len(orgRepos)

nArchived == Cardinality({u \in Units : orgRepos[u].archived})

-----------------------------------------------------------------------------
(* The job queue.                                                          *)

(* A variant of concurrency: more slots than there are jobs. *)
concurrencyUnset == MaxRepos + 1

(* new Queue({ concurrency: 2, ... }) *)
concurrency == 2

(* A variant of LoadJobs that queues the jobs in reverse order. *)
LoadJobsReversed(valid) == [i \in 1..Len(valid) |-> valid[Len(valid) + 1 - i]]

(* validOrgRepos.forEach(... taskQueue.push(...)) *)
LoadJobs(valid) == valid

(* start(): jobs are shifted and called while pending < concurrency. *)
Startable(js, p) == SubSeq(js, 1, Max(0, Min(concurrency - p, Len(js))))

InSeq(x, seq) == \E i \in 1..Len(seq) : seq[i] = x

OrgRepoLists ==
    UNION { [1..n -> BOOLEAN] : n \in 1..MaxRepos }

Init ==
    /\ \E archived \in OrgRepoLists :
          orgRepos = [i \in DOMAIN archived |->
                        [name |-> RepoNames[i], archived |-> archived[i]]]
    /\ licenseBlacklist \in BlacklistChoices
    /\ ignorePackagesRegex \in IgnoreChoices
    /\ jobs = LoadJobs(validOrgRepos)
    /\ pending = 0
    /\ phase = "loaded"
    /\ pc = [u \in Units |-> IF orgRepos[u].archived THEN "skipped" ELSE "queued"]
    /\ res = [u \in Units |-> ResUndefined]
    /\ work = [u \in Units |-> NoWork]
    /\ nScanned = 0
    /\ nFailed = 0
    /\ nAffected = 0
    /\ blacklistMap = <<>>
    /\ noLicenseMap = <<>>
    /\ problems = NoProblems
    /\ outcome = [u \in Units |-> NoOutcome]
    /\ report = NoReport

config == <<orgRepos, licenseBlacklist, ignorePackagesRegex>>
queue == <<jobs, pending, phase>>
counters == <<nScanned, nFailed, nAffected>>
maps == <<blacklistMap, noLicenseMap>>

(* taskQueue.start() *)
QueueStart ==
    /\ phase = "loaded"
    /\ LET started == Startable(jobs, pending)
       IN  /\ pc' = [u \in Units |-> IF InSeq(u, started) THEN "sbom" ELSE pc[u]]
           /\ jobs' = SubSeq(jobs, Len(started) + 1, Len(jobs))
           /\ pending' = pending + Len(started)
           /\ phase' = IF jobs = <<>> /\ pending = 0 THEN "ended" ELSE "running"
    /\ UNCHANGED <<config, report, res, work, counters, maps, problems, outcome>>

(* The queue's continuation of a settled job: the slot is freed and the    *)
(* next jobs are started; the queue ends with its last job.                *)
JobNext(u) ==
    /\ phase = "running"
    /\ pc[u] = "settled"
    /\ LET started == Startable(jobs, pending - 1)
       IN  /\ pc' = [v \in Units |-> IF v = u THEN "finished"
                                     ELSE IF InSeq(v, started) THEN "sbom" ELSE pc[v]]
           /\ jobs' = SubSeq(jobs, Len(started) + 1, Len(jobs))
           /\ pending' = pending - 1 + Len(started)
           /\ phase' = IF pending - 1 = 0 /\ jobs = <<>> THEN "ended" ELSE "running"
    /\ UNCHANGED <<config, report, res, work, counters, maps, problems, outcome>>

-----------------------------------------------------------------------------
(* One unit of work: the promise chain of [5a]..[5d].                      *)

(* The SBOM request is fulfilled. *)
SbomFulfilled(u) ==
    /\ pc[u] = "sbom"
    /\ \E sbom \in SampleDocs : res' = [res EXCEPT ![u] = Response(sbom)]
    /\ pc' = [pc EXCEPT ![u] = "then"]
    /\ UNCHANGED <<config, report, queue, work, counters, maps, problems, outcome>>

(* The SBOM request is rejected. *)
SbomRejected(u) ==
    /\ pc[u] = "sbom"
    /\ pc' = [pc EXCEPT ![u] = "sbomRejected"]
    /\ UNCHANGED <<config, report, queue, res, work, counters, maps, problems, outcome>>

(* .catch of the request: fail gracefully. *)
SbomCatch(u) ==
    /\ pc[u] = "sbomRejected"
    /\ nFailed' = nFailed + 1
    /\ outcome' = [outcome EXCEPT ![u].failed = @ + 1]
    /\ res' = [res EXCEPT ![u] = ResUndefined]
    /\ pc' = [pc EXCEPT ![u] = "then"]
    /\ UNCHANGED <<config, report, queue, work, nScanned, nAffected, maps, problems>>

(* A variant of HandlerEntry without "if (!res) return undefined": the     *)
(* destructuring of res.data throws.                                       *)
HandlerEntryNoGuard(r) ==
    IF r.kind = "undefined" THEN "throw"
    ELSE IF ~r.sbom.hasPackages THEN "throw"
    ELSE "await"

(* What the async handler does with the value it is given, up to its first *)
(* await: "skip" (no response), "throw" (no package list), or "await".     *)
HandlerEntry(r) ==
    IF r.kind = "undefined" THEN "skip"
    ELSE IF ~r.sbom.hasPackages THEN "throw"
    ELSE "await"

(* .then(async (res) => ...): [5b] and the start of [5c]. *)
ParseSbom(u) ==
    /\ pc[u] = "then"
    /\ LET entry == HandlerEntry(res[u])
       IN  /\ pc' = [pc EXCEPT ![u] = CASE entry = "skip"  -> "count"
                                        [] entry = "throw" -> "rejected"
                                        [] OTHER           -> "resolving"]
           /\ work' = [work EXCEPT ![u] = IF entry = "await"
                                          THEN ParseDocument(res[u].sbom)
                                          ELSE NoWork]
           /\ res' = [res EXCEPT ![u] = ResUndefined]
    /\ UNCHANGED <<config, report, queue, counters, maps, problems, outcome>>

Pending(u, stage) == {j \in 1..Len(work[u].lookups) : work[u].lookups[j].stage = stage}

SetLookup(u, j, l) == work' = [work EXCEPT ![u].lookups[j] = l]

(* The version-scoped call of a lookup is fulfilled. *)
NpmCurrVerFulfilled(u) ==
    /\ pc[u] = "resolving"
    /\ \E j \in Pending(u, "version"), license \in NpmLicenses :
          SetLookup(u, j, CurrVerFulfilled(work[u].lookups[j], work[u].relationshipMap,
                                           work[u].mainSpdxId, license))
    /\ UNCHANGED <<config, report, queue, pc, res, counters, maps, problems, outcome>>

(* The version-scoped call of a lookup is rejected. *)
NpmCurrVerRejected(u) ==
    /\ pc[u] = "resolving"
    /\ \E j \in Pending(u, "version") :
          SetLookup(u, j, CurrVerRejected(work[u].lookups[j], work[u].relationshipMap,
                                          work[u].mainSpdxId))
    /\ UNCHANGED <<config, report, queue, pc, res, counters, maps, problems, outcome>>

(* The unscoped call of a lookup is fulfilled. *)
NpmLatestFulfilled(u) ==
    /\ pc[u] = "resolving"
    /\ \E j \in Pending(u, "latest"), license \in NpmLicenses :
          SetLookup(u, j, LatestFulfilled(work[u].lookups[j], work[u].relationshipMap,
                                          work[u].mainSpdxId, license))
    /\ UNCHANGED <<config, report, queue, pc, res, counters, maps, problems, outcome>>

(* The unscoped call of a lookup is rejected. *)
NpmLatestRejected(u) ==
    /\ pc[u] = "resolving"
    /\ \E j \in Pending(u, "latest") :
          SetLookup(u, j, LatestRejected(work[u].lookups[j], work[u].relationshipMap,
                                         work[u].mainSpdxId))
    /\ UNCHANGED <<config, report, queue, pc, res, counters, maps, problems, outcome>>

(* Promise.all is fulfilled: the handler returns {repo, packages}. *)
AllResolved(u) ==
    /\ pc[u] = "resolving"
    /\ \A j \in 1..Len(work[u].lookups) : work[u].lookups[j].stage = "done"
    /\ res' = [res EXCEPT ![u] =
                 Result(RepoName(u),
                        [j \in 1..Len(work[u].lookups) |-> work[u].lookups[j].pkg])]
    /\ work' = [work EXCEPT ![u] = NoWork]
    /\ pc' = [pc EXCEPT ![u] = "count"]
    /\ UNCHANGED <<config, report, queue, counters, maps, problems, outcome>>

(* A variant of CatchUnexpected that throws the error again: the promise of *)
(* the job stays rejected and the job never reports back to the queue.     *)
CatchUnexpectedRethrow(u) ==
    /\ pc[u] = "rejected"
    /\ nFailed' = nFailed + 1
    /\ outcome' = [outcome EXCEPT ![u].failed = @ + 1]
    /\ res' = [res EXCEPT ![u] = ResUndefined]
    /\ pc' = [pc EXCEPT ![u] = "unhandled"]
    /\ UNCHANGED <<config, report, queue, work, nScanned, nAffected, maps, problems>>

(* A variant of CatchUnexpected that hands an empty result on. *)
CatchUnexpectedReturnsResult(u) ==
    /\ pc[u] = "rejected"
    /\ nFailed' = nFailed + 1
    /\ outcome' = [outcome EXCEPT ![u].failed = @ + 1]
    /\ res' = [res EXCEPT ![u] = Result(RepoName(u), <<>>)]
    /\ pc' = [pc EXCEPT ![u] = "count"]
    /\ UNCHANGED <<config, report, queue, work, nScanned, nAffected, maps, problems>>

(* .catch((err) => ...): an unexpected error occurred. *)
CatchUnexpected(u) ==
    /\ pc[u] = "rejected"
    /\ nFailed' = nFailed + 1
    /\ outcome' = [outcome EXCEPT ![u].failed = @ + 1]
    /\ res' = [res EXCEPT ![u] = ResUndefined]
    /\ pc' = [pc EXCEPT ![u] = "count"]
    /\ UNCHANGED <<config, report, queue, work, nScanned, nAffected, maps, problems>>

(* .then((res) => { if (res) nScanned++ ... return res }) *)
CountScanned(u) ==
    /\ pc[u] = "count"
    /\ nScanned' = IF res[u].kind = "result" THEN nScanned + 1 ELSE nScanned
    /\ outcome' = IF res[u].kind = "result"
                  THEN [outcome EXCEPT ![u].scanned = @ + 1] ELSE outcome
    /\ pc' = [pc EXCEPT ![u] = "update"]
    /\ UNCHANGED <<config, report, queue, res, work, nFailed, nAffected, maps, problems>>

(* [5d] What the last handler makes of the maps. *)
Classified(r, bl, nl, blacklist, regexes) ==
    IF r.kind = "result"
    THEN ClassifyReduce([blacklistMap |-> bl, noLicenseMap |-> nl, affected |-> FALSE],
                        r.repo, r.packages, blacklist, regexes)
    ELSE [blacklistMap |-> bl, noLicenseMap |-> nl, affected |-> FALSE]

(* A variant of UpdateMaps that counts every inserted entry. *)
UpdateMapsCountEntries(u) ==
    /\ pc[u] = "update"
    /\ LET c == Classified(res[u], blacklistMap, noLicenseMap,
                           licenseBlacklist, ignorePackagesRegex)
           n == IF res[u].kind = "result"
                THEN Cardinality({i \in 1..Len(res[u].packages) :
                        /\ ~Ignored(res[u].packages[i], ignorePackagesRegex)
                        /\ \/ res[u].packages[i].license = "Unknown"
                           \/ \E h \in 1..Len(licenseBlacklist) :
                                 licenseBlacklist[h] = res[u].packages[i].license})
                ELSE 0
       IN  /\ blacklistMap' = c.blacklistMap
           /\ noLicenseMap' = c.noLicenseMap
           /\ nAffected' = nAffected + n
           /\ outcome' = [outcome EXCEPT ![u].affected = @ + n]
    /\ res' = [res EXCEPT ![u] = ResUndefined]
    /\ pc' = [pc EXCEPT ![u] = "settled"]
    /\ UNCHANGED <<config, report, queue, work, nScanned, nFailed, problems>>

(* .then((res) => ...): [5d], the maps are updated. *)
UpdateMaps(u) ==
    /\ pc[u] = "update"
    /\ LET c == Classified(res[u], blacklistMap, noLicenseMap,
                           licenseBlacklist, ignorePackagesRegex)
       IN  /\ blacklistMap' = c.blacklistMap
           /\ noLicenseMap' = c.noLicenseMap
           /\ nAffected' = IF c.affected THEN nAffected + 1 ELSE nAffected
           /\ outcome' = IF c.affected
                         THEN [outcome EXCEPT ![u].affected = @ + 1] ELSE outcome
    /\ res' = [res EXCEPT ![u] = ResUndefined]
    /\ pc' = [pc EXCEPT ![u] = "settled"]
    /\ UNCHANGED <<config, report, queue, work, nScanned, nFailed, problems>>

(* A variant of SerializeReady that does not wait for the end of the queue. *)
SerializeReadyNoAwait == phase \in {"running", "ended"}

(* The continuation of taskQueue.start(): the maps are serialised. *)
SerializeReady == phase = "ended"

Serialize ==
    /\ SerializeReady
    /\ problems' = [kind |-> "problems",
                    blacklistPkgs |-> arraifyMap(blacklistMap),
                    noLicensePkgs |-> arraifyMap(noLicenseMap)]
    /\ blacklistMap' = SortLeaves(blacklistMap)
    /\ noLicenseMap' = SortLeaves(noLicenseMap)
    /\ phase' = "serialized"
    /\ UNCHANGED <<config, report, jobs, pending, pc, res, work, counters, outcome>>

-----------------------------------------------------------------------------
(* [6], [7] The report.  A text is the sequence of its pieces; the empty   *)
(* string is the empty sequence.                                           *)

(* Array.prototype.join of texts. *)
RECURSIVE Join(_, _)
Join(parts, sep) ==
    IF parts = <<>> THEN <<>>
    ELSE IF Len(parts) = 1 THEN parts[1]
    ELSE parts[1] \o <<sep>> \o Join(Tail(parts), sep)

(* The line of one repository under a version. *)
RepoText(e) ==
    <<"  - [", e.repo, "](", e.repo, ")",
      " (", IF e.isTransitiveDep THEN "indirect" ELSE "direct", ")">>
      \o (IF e.resolveMode # "failed" /\ e.resolveMode # "explicit"
          THEN <<" (", e.resolveMode, ")">> ELSE <<>>)

VersionText(v) ==
    <<"@ ", v.version, ":<br>">>
      \o Join([g \in 1..Len(v.repos) |-> RepoText(v.repos[g])], ",<br>")

(* The table rows of one package: its name on the first row only. *)
PackageText(p) ==
    Join([j \in 1..Len(p.licenses) |->
            <<"| ", IF j = 1 THEN p.name ELSE "", " | ", p.licenses[j].license, " | ">>
              \o Join([h \in 1..Len(p.licenses[j].versions) |->
                          VersionText(p.licenses[j].versions[h])], ",<br>")
              \o <<" |">>],
         "\n")

generateMDFromPkgs(pkgsCategory) ==
    LET pkgs == IF pkgsCategory = "blacklisted" THEN problems.blacklistPkgs
                ELSE problems.noLicensePkgs
    IN  <<"### Dependencies with ", pkgsCategory, " licenses\n",
          "| Package Name | License | Repositories Affected |\n",
          "| --- | --- | --- |\n">>
          \o Join([i \in 1..Len(pkgs) |-> PackageText(pkgs[i])], "\n")
          \o <<"\n\n", "Please ",
               IF pkgsCategory = "blacklisted" THEN "remove" ELSE "review",
               " these dependencies.">>

outputComponents ==
    (IF Len(problems.blacklistPkgs) > 0 THEN <<generateMDFromPkgs("blacklisted")>> ELSE <<>>)
      \o (IF Len(problems.noLicensePkgs) > 0 THEN <<generateMDFromPkgs("missing")>> ELSE <<>>)

mdProblems == Join(outputComponents, "\n\n")

(* The repository entries of the serialised arrays, which the rendering    *)
(* counts as direct or transitive.                                         *)
Rendered(pkgs) ==
    UNION { UNION { UNION {
        { [name |-> pkgs[i].name, license |-> pkgs[i].licenses[j].license,
           version |-> pkgs[i].licenses[j].versions[h].version,
           leaf |-> pkgs[i].licenses[j].versions[h].repos[g]] :
            g \in 1..Len(pkgs[i].licenses[j].versions[h].repos) } :
        h \in 1..Len(pkgs[i].licenses[j].versions) } :
        j \in 1..Len(pkgs[i].licenses) } :
        i \in 1..Len(pkgs) }

(* createHash("md5").update(text).digest("base64"): the digests of         *)
(* different texts are different.                                          *)
Md5(text) == [md5 |-> text]

(* A variant of hasDiffs that compares the lengths of the texts. *)
hasDiffsByLength(a, b) == Len(a) # Len(b)

hasDiffs(a, b) == Md5(a) # Md5(b)

(* The first comment of the bot on its issue, which [7b] and [7c] fetch:   *)
(* no comment, one with an empty body, the text of this run, that text     *)
(* with one more or one other character, another text.                     *)
ExistingComments(text) ==
    {NoComment} \cup
    { [exists |-> TRUE, body |-> b] :
        b \in { <<>>, text, text \o <<"\n">>,
                [i \in 1..Len(text) |-> IF i = Len(text) THEN "_" ELSE text[i]],
                <<"### Dependencies with ", "blacklisted", " licenses\n">> } }

(* The continuation of the await of taskQueue.start(): [6] and [7] up to   *)
(* the first request.  Nothing is exported when there is no problem; the   *)
(* run throws when the repository of the app is not in the organisation.   *)
GenerateReport ==
    /\ phase = "serialized"
    /\ report.stage = "none"
    /\ LET direct == {e \in Rendered(problems.blacklistPkgs) : ~e.leaf.isTransitiveDep}
           transitive == {e \in Rendered(problems.blacklistPkgs) : e.leaf.isTransitiveDep}
           directMissing == {e \in Rendered(problems.noLicensePkgs) : ~e.leaf.isTransitiveDep}
           transitiveMissing == {e \in Rendered(problems.noLicensePkgs) : e.leaf.isTransitiveDep}
       IN  \E appRepoFound \in BOOLEAN, existingComment \in ExistingComments(mdProblems) :
              report' = [report EXCEPT
                  !.existingComment = existingComment,
                  !.stage = IF mdProblems = <<>> THEN "noProblems"
                            ELSE IF appRepoFound THEN "rendered" ELSE "thrown",
                  !.mdProblems = mdProblems,
                  !.nDirectDeps = Cardinality(direct) + Cardinality(directMissing),
                  !.nTransitiveDeps = Cardinality(transitive) + Cardinality(transitiveMissing),
                  !.reposWithDirectDeps = {e.leaf.repo : e \in direct \cup directMissing}]
    /\ UNCHANGED <<config, queue, pc, res, work, counters, maps, problems, outcome>>

(* [7d] if (existingComment?.body && !hasDiffs(existingComment.body, mdProblems)) *)
ExportReport ==
    /\ report.stage = "rendered"
    /\ LET existingComment == report.existingComment
       IN  report' = [report EXCEPT
              !.stage = IF /\ existingComment.exists
                           /\ existingComment.body # <<>>
                           /\ ~hasDiffs(existingComment.body, report.mdProblems)
                        THEN "skip" ELSE "publish"]
    /\ UNCHANGED <<config, queue, pc, res, work, counters, maps, problems, outcome>>

Next ==
    \/ QueueStart
    \/ \E u \in Units : SbomFulfilled(u)
    \/ \E u \in Units : SbomRejected(u)
    \/ \E u \in Units : SbomCatch(u)
    \/ \E u \in Units : ParseSbom(u)
    \/ \E u \in Units : NpmCurrVerFulfilled(u)
    \/ \E u \in Units : NpmCurrVerRejected(u)
    \/ \E u \in Units : NpmLatestFulfilled(u)
    \/ \E u \in Units : NpmLatestRejected(u)
    \/ \E u \in Units : AllResolved(u)
    \/ \E u \in Units : CatchUnexpected(u)
    \/ \E u \in Units : CountScanned(u)
    \/ \E u \in Units : UpdateMaps(u)
    \/ \E u \in Units : JobNext(u)
    \/ Serialize
    \/ GenerateReport
    \/ ExportReport

Spec == Init /\ [][Next]_vars

(* Fairness: the event loop runs every callback that is ready, and every   *)
(* external call (the SBOM request, the registry lookups) settles.  The    *)
(* step of UpdateMaps(u) is the one that takes pc[u] from "update" to      *)
(* "settled", that of ParseSbom(u) the one that takes pc[u] from "then",   *)
(* that of Serialize the one that takes phase from "ended" to              *)
(* "serialized"; each is enabled exactly when its handler is ready.        *)
UpdateMapsStep ==
    \E u \in Units : pc[u] = "update" /\ pc' = [pc EXCEPT ![u] = "settled"]

ParseSbomStep ==
    \E u \in Units, to \in {"count", "rejected", "resolving"} :
        /\ pc[u] = "then"
        /\ to = (CASE HandlerEntry(res[u]) = "skip"  -> "count"
                   [] HandlerEntry(res[u]) = "throw" -> "rejected"
                   [] OTHER                          -> "resolving")
        /\ pc' = [pc EXCEPT ![u] = to]

SerializeStep == SerializeReady /\ phase' = "serialized"

Settling ==
    \/ QueueStart
    \/ \E u \in Units : SbomFulfilled(u)
    \/ \E u \in Units : SbomRejected(u)
    \/ \E u \in Units : SbomCatch(u)
    \/ \E u \in Units : NpmCurrVerFulfilled(u)
    \/ \E u \in Units : NpmCurrVerRejected(u)
    \/ \E u \in Units : NpmLatestFulfilled(u)
    \/ \E u \in Units : NpmLatestRejected(u)
    \/ \E u \in Units : AllResolved(u)
    \/ \E u \in Units : CatchUnexpected(u)
    \/ \E u \in Units : CountScanned(u)
    \/ \E u \in Units : JobNext(u)

FairSpec ==
    /\ Spec
    /\ WF_vars(Settling)
    /\ WF_pc(ParseSbomStep)
    /\ WF_pc(UpdateMapsStep)
    /\ WF_phase(SerializeStep)

-----------------------------------------------------------------------------
(* Properties of the fan-out.                                              *)

(* Units whose job has been started and whose slot is not yet freed. *)
InFlight == {u \in Units : pc[u] \notin {"skipped", "queued", "finished"}}

Started(u) == pc[u] \notin {"skipped", "queued"}

Done(u) == pc[u] \in {"skipped", "finished"}

(* The leaf entries of a map, each with the keys it is stored under. *)
Leaves(map) ==
    UNION { UNION { UNION {
        { [name |-> map[i].k, license |-> map[i].v[j].k, version |-> map[i].v[j].v[h].k,
           at |-> g, leaf |-> map[i].v[j].v[h].v[g]] :
            g \in 1..Len(map[i].v[j].v[h].v) } :
        h \in 1..Len(map[i].v[j].v) } :
        j \in 1..Len(map[i].v) } :
        i \in 1..Len(map) }

(* The entries of a unit's repository in the two maps. *)
EntriesIn(map, u) ==
    { [name |-> e.name, license |-> e.license, version |-> e.version, leaf |-> e.leaf] :
        e \in {x \in Leaves(map) : x.leaf.repo = RepoName(u)} }

EntriesOf(u) == <<EntriesIn(blacklistMap, u), EntriesIn(noLicenseMap, u)>>

NoEntries == <<{}, {}>>

(* C1: at every moment at most 2 units of work (the concurrency of the     *)
(* queue) have been started and have not yet settled, and the queue counts *)
(* exactly those as pending.                                               *)
C1_AtMostKInFlight ==
    /\ Cardinality(InFlight) <= 2
    /\ Cardinality({u \in Units : Started(u) /\ pc[u] \notin {"settled", "finished"}}) <= 2
    /\ phase \in {"running", "ended"} => pending = Cardinality(InFlight)

(* The cap binds: two units hold the slots while a third waits. *)
C1_Witness == Cardinality(InFlight) = 2 /\ jobs # <<>>

(* C2: units are started in the order of the valid-repository list, and a  *)
(* unit the start of the queue left waiting is started only in the step in *)
(* which a running unit's job is settled and its slot freed.               *)
C2_SubmissionOrder ==
    /\ [](\A i, j \in 1..Len(validOrgRepos) :
            i < j /\ Started(validOrgRepos[j]) => Started(validOrgRepos[i]))
    /\ [][\A u \in Units :
            pc[u] = "queued" /\ pc'[u] # "queued"
            => \/ phase = "loaded"
               \/ \E v \in Units : pc[v] = "settled" /\ pc'[v] = "finished"]_vars

(* The third unit of the list has been started while a later one waits. *)
C2_Witness ==
    /\ Len(validOrgRepos) >= 3
    /\ Started(validOrgRepos[3])
    /\ pc[validOrgRepos[1]] = "finished"

(* C3: a failing unit changes the position of no other unit and takes no   *)
(* job off the queue, and, every external call settling, the batch         *)
(* completes with every submitted unit started and settled.                *)
C3_BatchCompletes ==
    /\ [][\A u \in Units :
            outcome'[u].failed > outcome[u].failed
            => /\ jobs' = jobs
               /\ phase' = phase
               /\ \A v \in Units \ {u} : pc'[v] = pc[v]]_vars
    /\ <>(phase = "serialized" /\ \A u \in Units : Done(u))

(* The batch completed although a unit failed, with a sibling scanned. *)
C3_Witness ==
    /\ phase = "serialized"
    /\ \E u, v \in Units : outcome[u].failed = 1 /\ outcome[v].scanned = 1

(* C4: the completion continuation runs only when every unit has settled,  *)
(* it is what serialises the maps, and no map changes afterwards.          *)
C4_SerializeAfterAll ==
    /\ [](phase = "serialized" => \A u \in Units : Done(u))
    /\ [](problems.kind = "problems" <=> phase = "serialized")
    /\ [][problems' # problems => \A u \in Units : Done(u)]_vars
    /\ [][phase = "serialized"
          => /\ blacklistMap' = blacklistMap
             /\ noLicenseMap' = noLicenseMap
             /\ problems' = problems]_vars

(* Maps with findings have been serialised. *)
C4_Witness ==
    /\ phase = "serialized"
    /\ blacklistMap # <<>>
    /\ noLicenseMap # <<>>

(* C5: every unit increments exactly one of nScanned and nFailed, once:    *)
(* never more than one increment per unit, exactly one once it has         *)
(* settled, and after the batch nScanned + nFailed is the number of        *)
(* non-archived repositories.                                              *)
C5_CountedOnce ==
    /\ \A u \in Units :
          /\ outcome[u].failed + outcome[u].scanned <= 1
          /\ pc[u] \in {"settled", "finished"} => outcome[u].failed + outcome[u].scanned = 1
          /\ pc[u] = "skipped" => outcome[u].failed + outcome[u].scanned = 0
    /\ nFailed = Cardinality({u \in Units : outcome[u].failed >= 1})
    /\ nScanned = Cardinality({u \in Units : outcome[u].scanned >= 1})
    /\ phase \in {"ended", "serialized"}
       => /\ nScanned + nFailed = Len(validOrgRepos)
          /\ nScanned + nFailed + nArchived = nRepos

(* Two valid repositories, one failed on fetch: scanned = 1, failed = 1. *)
C5_Witness ==
    /\ phase = "serialized"
    /\ Len(validOrgRepos) = 2
    /\ nArchived = 1
    /\ nScanned = 1
    /\ nFailed = 1

(* C6: a unit that failed has no entry in either map and is counted        *)
(* neither as scanned nor as affected; the entries of a unit appear in the *)
(* single step that updates the maps, after all its lookups resolved.      *)
C6_AllOrNothing ==
    /\ [](\A u \in Units :
            /\ outcome[u].failed >= 1
               => EntriesOf(u) = NoEntries /\ outcome[u].scanned = 0 /\ outcome[u].affected = 0
            /\ EntriesOf(u) # NoEntries => pc[u] \in {"settled", "finished"})
    /\ [][\A u \in Units :
            EntriesOf(u)' # EntriesOf(u)
            => /\ pc[u] = "update" /\ pc'[u] = "settled"
               /\ work[u].lookups = <<>>]_vars

(* A failed unit has settled beside a sibling with a finding. *)
C6_Witness ==
    \E u, v \in Units :
        /\ outcome[u].failed = 1
        /\ pc[u] = "finished"
        /\ EntriesOf(v) # NoEntries

-----------------------------------------------------------------------------
(* A single unit of work, from the arrival of its SBOM document on.        *)

InitOne(docs) ==
    /\ orgRepos = <<[name |-> RepoNames[1], archived |-> FALSE]>>
    /\ licenseBlacklist \in BlacklistChoices
    /\ ignorePackagesRegex \in IgnoreChoices
    /\ jobs = <<>>
    /\ pending = 1
    /\ phase = "running"
    /\ pc = <<"then">>
    /\ \E sbom \in docs : res = <<Response(sbom)>>
    /\ work = <<NoWork>>
    /\ nScanned = 0
    /\ nFailed = 0
    /\ nAffected = 0
    /\ blacklistMap = <<>>
    /\ noLicenseMap = <<>>
    /\ problems = NoProblems
    /\ outcome = <<NoOutcome>>
    /\ report = NoReport

NextOne ==
    \/ \E u \in Units : ParseSbom(u)
    \/ \E u \in Units : NpmCurrVerFulfilled(u)
    \/ \E u \in Units : NpmCurrVerRejected(u)
    \/ \E u \in Units : NpmLatestFulfilled(u)
    \/ \E u \in Units : NpmLatestRejected(u)
    \/ \E u \in Units : AllResolved(u)
    \/ \E u \in Units : CountScanned(u)
    \/ \E u \in Units : UpdateMaps(u)
    \/ \E u \in Units : JobNext(u)
    \/ Serialize

InitUnit == InitOne(UnitDocs)

SpecUnit == InitUnit /\ [][NextOne]_vars

InitRel == InitOne(EdgeDocs)

SpecRel == InitRel /\ [][NextOne]_vars

-----------------------------------------------------------------------------
(* Properties of the processing of one document, stated while the handler  *)
(* of the unit awaits its lookups (pc = "resolving": its locals are live). *)

Resolving == {u \in Units : pc[u] = "resolving"}

(* The edges of a list that have both ids and the given source id. *)
EdgesFrom(relationships, source) ==
    {i \in 1..Len(relationships) :
        /\ Truthy(relationships[i].spdxElementId)
        /\ Truthy(relationships[i].relatedSpdxElement)
        /\ relationships[i].spdxElementId = source}

Least(S) == CHOOSE i \in S : \A j \in S : i <= j

Greatest(S) == CHOOSE i \in S : \A j \in S : j <= i

SourceIds(relationships) ==
    {relationships[i].spdxElementId : i \in 1..Len(relationships)} \cup {"", "NOTFOUND"}

(* C7: for every source id the relationship map holds the target of the    *)
(* first edge, in input order, that has this source id and both ids; it    *)
(* holds nothing for an id without such an edge, and one entry per id.     *)
C7_FirstEdgeWins ==
    \A u \in Resolving :
        LET relationships == work[u].relationships
            map == work[u].relationshipMap
        IN  /\ \A source \in SourceIds(relationships) :
                  IF EdgesFrom(relationships, source) = {}
                  THEN ~MapHas(map, source)
                  ELSE MapGet(map, source) =
                         relationships[Least(EdgesFrom(relationships, source))].relatedSpdxElement
            /\ \A i, j \in 1..Len(map) : map[i].k = map[j].k => i = j
            /\ \A i \in 1..Len(map) : EdgesFrom(relationships, map[i].k) # {}

(* A later edge of the same source id names another target, and an edge    *)
(* lacks an id.                                                            *)
C7_Witness ==
    \E u \in Resolving :
        LET relationships == work[u].relationships
        IN  /\ \E i, j \in 1..Len(relationships) :
                  /\ i < j
                  /\ {i, j} \subseteq EdgesFrom(relationships, relationships[i].spdxElementId)
                  /\ relationships[i].relatedSpdxElement # relationships[j].relatedSpdxElement
            /\ \E i \in 1..Len(relationships) : ~Truthy(relationships[i].relatedSpdxElement)

(* The element id a node is processed under, and the root id of a list. *)
ElementId(node) == IF Truthy(node.SPDXID) THEN node.SPDXID ELSE "NOTFOUND"

MainNodes(packages) == {i \in 1..Len(packages) : packages[i].versionInfo = "main"}

RootId(packages) ==
    IF MainNodes(packages) = {} THEN ""
    ELSE ElementId(packages[Greatest(MainNodes(packages))])

(* C8: an emitted package is direct (isTransitiveDep false) exactly when   *)
(* the first edge from its element id leads to the root id, and transitive *)
(* otherwise: when that edge leads elsewhere, and when there is no edge    *)
(* from its element id, whatever the root id.                              *)
C8_TransitiveUnlessEdgeToRoot ==
    \A u \in Resolving :
        \A j \in 1..Len(work[u].lookups) :
            LET l == work[u].lookups[j]
                from == EdgesFrom(work[u].relationships, ElementId(l.dep))
                direct ==
                    /\ from # {}
                    /\ work[u].relationships[Least(from)].relatedSpdxElement
                         = RootId(work[u].packages)
            IN  l.stage = "done" => (l.pkg.isTransitiveDep <=> ~direct)

(* A package whose edge leads to the root is emitted as direct. *)
C8_Witness ==
    \E u \in Resolving :
        \E j \in 1..Len(work[u].lookups) :
            /\ work[u].lookups[j].stage = "done"
            /\ ~work[u].lookups[j].pkg.isTransitiveDep

(* The nodes of a list that are dependencies with a name. *)
NamedDeps(packages) ==
    {i \in 1..Len(packages) :
        packages[i].versionInfo # "main" /\ Truthy(packages[i].name)}

VersionCalls(l) == {c \in 1..Len(l.calls) : l.calls[c].scope = "version"}

(* C9: every name of a dependency has exactly one lookup, that of the      *)
(* first node of this name (its version, explicit licence and element id), *)
(* with one version-scoped registry call if that node has no explicit      *)
(* licence and none otherwise; the lookups are in order of first           *)
(* occurrence.                                                             *)
C9_OneLookupPerName ==
    \A u \in Resolving :
        LET packages == work[u].packages
            lookups == work[u].lookups
            First(name) == Least({i \in NamedDeps(packages) : packages[i].name = name})
        IN  /\ \A i \in NamedDeps(packages) :
                  \E j \in 1..Len(lookups) :
                      /\ lookups[j].dep.name = packages[i].name
                      /\ \A h \in 1..Len(lookups) :
                            lookups[h].dep.name = packages[i].name => h = j
            /\ \A j \in 1..Len(lookups) :
                  /\ \E i \in NamedDeps(packages) : packages[i].name = lookups[j].dep.name
                  /\ LET first == packages[First(lookups[j].dep.name)]
                     IN  /\ lookups[j].dep.versionInfo = first.versionInfo
                         /\ lookups[j].dep.licenseConcluded = first.licenseConcluded
                         /\ lookups[j].dep.SPDXID = ElementId(first)
                         /\ Cardinality(VersionCalls(lookups[j]))
                              = IF Truthy(first.licenseConcluded) THEN 0 ELSE 1
                         /\ lookups[j].stage = "done"
                            => /\ lookups[j].pkg.name = first.name
                               /\ lookups[j].pkg.version = first.versionInfo
            /\ \A h, j \in 1..Len(lookups) :
                  h < j => First(lookups[h].dep.name) < First(lookups[j].dep.name)

(* Two nodes of one name with different versions. *)
C9_Witness ==
    \E u \in Resolving :
        \E i, j \in NamedDeps(work[u].packages) :
            /\ i < j
            /\ work[u].packages[i].name = work[u].packages[j].name
            /\ work[u].packages[i].versionInfo # work[u].packages[j].versionInfo
            /\ ~Truthy(work[u].packages[i].licenseConcluded)
            /\ Truthy(work[u].packages[j].licenseConcluded)

(* C10: the fallback order of the resolver.  With an explicit licence the  *)
(* package carries it, mode explicit, and no call is made.  Otherwise the  *)
(* first call is the version-scoped one; the unscoped call is made only    *)
(* after it failed, and nothing after that; npmCurrVer is the result of a  *)
(* successful version-scoped call alone, npmLatestVer that of a failed     *)
(* version-scoped and a successful unscoped call, and (non-NPM, failed)    *)
(* that of both calls having failed.                                       *)
C10_FallbackOrder ==
    \A u \in Resolving :
        \A j \in 1..Len(work[u].lookups) :
            LET l == work[u].lookups[j]
                Scopes == [c \in 1..Len(l.calls) |-> l.calls[c].scope]
                Results == [c \in 1..Len(l.calls) |-> l.calls[c].result]
            IN  IF Truthy(l.dep.licenseConcluded)
                THEN /\ l.stage = "done"
                     /\ l.calls = <<>>
                     /\ l.pkg.license = l.dep.licenseConcluded
                     /\ l.pkg.resolveMode = "explicit"
                ELSE /\ Scopes \in {<<"version">>, <<"version", "latest">>}
                     /\ l.calls[1].name = l.dep.name
                     /\ l.calls[1].version = l.dep.versionInfo
                     /\ Len(l.calls) = 2
                        => /\ Results[1] = "error"
                           /\ l.calls[2].name = l.dep.name
                           /\ l.calls[2].version = Undefined
                     /\ l.stage # "done" => Results[Len(l.calls)] = "pending"
                     /\ l.stage = "done"
                        => \/ /\ l.pkg.resolveMode = "npmCurrVer"
                              /\ Results = <<"ok">>
                              /\ l.pkg.license \in NpmLicenses
                           \/ /\ l.pkg.resolveMode = "npmLatestVer"
                              /\ Results = <<"error", "ok">>
                              /\ l.pkg.license \in NpmLicenses
                           \/ /\ l.pkg.resolveMode = "failed"
                              /\ Results = <<"error", "error">>
                              /\ l.pkg.license = "non-NPM"

(* Beside a package with an explicit licence, one resolved by the unscoped *)
(* call after the version-scoped call failed.                              *)
C10_Witness ==
    \E u \in Resolving :
        \E i, j \in 1..Len(work[u].lookups) :
            /\ work[u].lookups[i].stage = "done"
            /\ work[u].lookups[i].pkg.resolveMode = "explicit"
            /\ work[u].lookups[j].stage = "done"
            /\ work[u].lookups[j].pkg.resolveMode = "npmLatestVer"

-----------------------------------------------------------------------------
(* Units of work whose handlers have returned their packages: the maps are *)
(* updated in the order in which the units get there.                      *)

(* Packages a handler returns for documents whose nodes carry a licence. *)
StorePackages ==
    [name : {"lodash", "react"}, isTransitiveDep : {TRUE},
     version : {"1.0.0", "2.0.0"}, license : {"GPL-3.0", "MIT", "Unknown"},
     resolveMode : {"explicit"}]

(* The package lists of a result: the names of a list are distinct. *)
StoreLists ==
    {l \in SeqsUpTo(StorePackages, MaxPkgs) :
        \A i, j \in 1..Len(l) : l[i].name = l[j].name => i = j}

(* n units, as many as the queue runs at once, about to update the maps. *)
InitUpdating(n, lists, blacklists, ignores) ==
    /\ orgRepos = [u \in 1..n |-> [name |-> RepoNames[u], archived |-> FALSE]]
    /\ licenseBlacklist \in blacklists
    /\ ignorePackagesRegex \in ignores
    /\ jobs = <<>>
    /\ pending = n
    /\ phase = "running"
    /\ pc = [u \in 1..n |-> "update"]
    /\ \E ls \in [1..n -> lists] : res = [u \in 1..n |-> Result(RepoNames[u], ls[u])]
    /\ work = [u \in 1..n |-> NoWork]
    /\ nScanned = n
    /\ nFailed = 0
    /\ nAffected = 0
    /\ blacklistMap = <<>>
    /\ noLicenseMap = <<>>
    /\ problems = NoProblems
    /\ outcome = [u \in 1..n |-> [failed |-> 0, scanned |-> 1, affected |-> 0]]
    /\ report = NoReport

NextUpdating ==
    \/ \E u \in Units : UpdateMaps(u)
    \/ \E u \in Units : JobNext(u)
    \/ Serialize

InitStore == InitUpdating(concurrency, StoreLists, {<<"MIT", "GPL-3.0">>}, {<<>>})

SpecStore == InitStore /\ [][NextUpdating]_vars

(* The strings of a set in collation order. *)
SortedSeq(S) ==
    [i \in 1..Cardinality(S) |->
        CHOOSE x \in S : Cardinality({y \in S : Rank(y) < Rank(x)}) = i - 1]

(* All leaf entries of a map, with the keys they are stored under. *)
Entries(map) ==
    { [name |-> e.name, license |-> e.license, version |-> e.version, leaf |-> e.leaf] :
        e \in Leaves(map) }

(* The sorted arrays that a set of entries determines: names, then         *)
(* licences, then versions in collation order, the repositories of a       *)
(* version by name.                                                        *)
SortedArrays(E) ==
    LET names == SortedSeq({e.name : e \in E})
        OfName(n) == {e \in E : e.name = n}
        OfLicense(n, l) == {e \in OfName(n) : e.license = l}
        OfVersion(n, l, v) == {e \in OfLicense(n, l) : e.version = v}
        Repos(F) ==
            LET repos == SortedSeq({e.leaf.repo : e \in F})
            IN  [g \in 1..Len(repos) |-> (CHOOSE e \in F : e.leaf.repo = repos[g]).leaf]
        Versions(n, l) ==
            LET versions == SortedSeq({e.version : e \in OfLicense(n, l)})
            IN  [h \in 1..Len(versions) |->
                    [version |-> versions[h], repos |-> Repos(OfVersion(n, l, versions[h]))]]
        Licenses(n) ==
            LET licenses == SortedSeq({e.license : e \in OfName(n)})
            IN  [j \in 1..Len(licenses) |->
                    [license |-> licenses[j], versions |-> Versions(n, licenses[j])]]
    IN  [i \in 1..Len(names) |-> [name |-> names[i], licenses |-> Licenses(names[i])]]

(* C11: the serialised arrays are those that the set of findings in a map  *)
(* determines, whatever the order in which the units inserted them: names, *)
(* licences of a name and versions of a licence in lexicographic order,    *)
(* the repositories of a version by name.                                  *)
C11_SerializationOrderIndependent ==
    phase = "serialized"
    => /\ problems.blacklistPkgs = SortedArrays(Entries(blacklistMap))
       /\ problems.noLicensePkgs = SortedArrays(Entries(noLicenseMap))

(* Names, the licences of a name and the versions of a licence were        *)
(* inserted in descending order, by two repositories of which the second   *)
(* in name order was first.                                                *)
C11_Witness ==
    /\ phase = "serialized"
    /\ Len(blacklistMap) = 2
    /\ Rank(blacklistMap[1].k) > Rank(blacklistMap[2].k)
    /\ \E i \in 1..2 :
          /\ Len(blacklistMap[i].v) = 2
          /\ Rank(blacklistMap[i].v[1].k) > Rank(blacklistMap[i].v[2].k)
    /\ \E i \in 1..2 :
          /\ Len(blacklistMap[i].v[1].v) = 2
          /\ Rank(blacklistMap[i].v[1].v[1].k) > Rank(blacklistMap[i].v[1].v[2].k)
    /\ \A u \in Units : pc[u] = "finished"

-----------------------------------------------------------------------------
(* The classification of the packages of one unit, [5d], under blacklists  *)
(* with and without the string "Unknown".                                  *)

ClassifyBlacklists == {<<"GPL-3.0">>, <<"GPL-3.0", "Unknown">>}

InitClassify == InitUpdating(1, StoreLists, ClassifyBlacklists, {<<>>})

SpecClassify == InitClassify /\ [][NextUpdating]_vars

(* The names under which a repository has entries in a map. *)
NamesIn(map, u) == {e.name : e \in EntriesIn(map, u)}

(* C12: no package of a repository has an entry in both the blacklist map  *)
(* and the missing-licence map, whatever the blacklist, one that lists     *)
(* "Unknown" included.                                                     *)
C12_NeverBothStores ==
    \A u \in Units : NamesIn(blacklistMap, u) \cap NamesIn(noLicenseMap, u) = {}

(* A package of licence "Unknown" was classified under a blacklist that    *)
(* lists "Unknown", beside a package of another blacklisted licence.       *)
C12_Witness ==
    /\ \E i \in 1..Len(licenseBlacklist) : licenseBlacklist[i] = "Unknown"
    /\ \E u \in Units :
          /\ pc[u] = "settled"
          /\ NamesIn(blacklistMap, u) # {}
          /\ \E e \in EntriesIn(noLicenseMap, u) : e.license = "Unknown"

-----------------------------------------------------------------------------
(* The ignore filter of [5d]: units all of whose packages have a           *)
(* blacklisted or an unknown licence, under several lists of patterns.     *)

FindingLists ==
    {l \in StoreLists : l # <<>> /\ \A i \in 1..Len(l) : l[i].license # "MIT"}

IgnoreRegexes == {<<>>, <<"act">>, <<"eslint", "lodash">>, <<"act", "lodash">>}

InitIgnore == InitUpdating(1, FindingLists, {<<"GPL-3.0">>}, IgnoreRegexes)

SpecIgnore == InitIgnore /\ [][NextUpdating]_vars

(* The step of the last handler of unit u. *)
Updates(u) == pc[u] = "update" /\ pc'[u] = "settled"

(* A name matches one of the configured patterns. *)
MatchesAny(name) ==
    \E i \in 1..Len(ignorePackagesRegex) : RegExpTest(ignorePackagesRegex[i], name)

(* C13: a package whose name matches any of the ignore patterns gets no    *)
(* entry in either map, whatever its licence, and a unit all of whose      *)
(* packages match is not counted as affected; the packages that match no   *)
(* pattern are still inserted.                                             *)
C13_IgnoredNeverInserted ==
    [][\A u \in Units :
          Updates(u) /\ res[u].kind = "result"
          => LET packages == res[u].packages
                 ignored == {i \in 1..Len(packages) : MatchesAny(packages[i].name)}
             IN  /\ \A i \in ignored :
                       packages[i].name \notin
                           NamesIn(blacklistMap', u) \cup NamesIn(noLicenseMap', u)
                 /\ \A i \in 1..Len(packages) \ ignored :
                       packages[i].name \in
                           NamesIn(blacklistMap', u) \cup NamesIn(noLicenseMap', u)
                 /\ ignored = 1..Len(packages) => nAffected' = nAffected
                 /\ ignored # 1..Len(packages) => nAffected' = nAffected + 1]_vars

(* A unit settled without any entry and without being counted as affected, *)
(* although all its packages have a blacklisted or an unknown licence:     *)
(* each of them matches one of the two patterns.                           *)
C13_Witness ==
    /\ ignorePackagesRegex = <<"act", "lodash">>
    /\ \E u \in Units : pc[u] = "settled"
    /\ blacklistMap = <<>>
    /\ noLicenseMap = <<>>
    /\ nAffected = 0

(* A licence is a member of the configured blacklist. *)
Blacklisted(license) == \E i \in 1..Len(licenseBlacklist) : licenseBlacklist[i] = license

(* C14: by the step of the last handler every package that is not ignored  *)
(* has an entry in the blacklist map, and none in the missing-licence map, *)
(* if its licence is a member of the blacklist; otherwise an entry in the  *)
(* missing-licence map if its licence is "Unknown"; otherwise no entry.    *)
(* Membership of the blacklist comes first, also for the licence           *)
(* "Unknown".                                                              *)
C14_BlacklistTakesPrecedence ==
    [][\A u \in Units :
          Updates(u) /\ res[u].kind = "result"
          => \A i \in 1..Len(res[u].packages) :
                LET pkg == res[u].packages[i]
                IN  ~MatchesAny(pkg.name)
                    => /\ pkg.name \in NamesIn(blacklistMap', u)
                            <=> Blacklisted(pkg.license)
                       /\ pkg.name \in NamesIn(noLicenseMap', u)
                            <=> ~Blacklisted(pkg.license) /\ pkg.license = "Unknown"]_vars

-----------------------------------------------------------------------------
(* Properties of the report.                                               *)

(* A previous report text exists: a comment with a body that is not empty. *)
PreviousText == report.existingComment.exists /\ report.existingComment.body # <<>>

(* C15: the differ skips when the previous text and the new text are       *)
(* identical, and publishes when there is no previous text and when the    *)
(* texts differ, be it in a single character.                               *)
C15_DifferDecision ==
    report.stage \in {"skip", "publish"}
    => (report.stage = "skip"
          <=> PreviousText /\ report.existingComment.body = report.mdProblems)

(* The previous text has the length of the new one and differs from it in  *)
(* its last piece, and the report is published.                            *)
C15_Witness ==
    /\ report.stage = "publish"
    /\ PreviousText
    /\ Len(report.existingComment.body) = Len(report.mdProblems)
    /\ \A i \in 1..(Len(report.mdProblems) - 1) :
          report.existingComment.body[i] = report.mdProblems[i]
    /\ report.existingComment.body # report.mdProblems

(* C16: the differ is the only gate: a run publishes exactly when there is *)
(* no previous text or the new text differs from it, a run without         *)
(* findings after a report with findings included.                         *)
C16_DifferIsSingleGate ==
    report.stage \in {"noProblems", "skip", "publish"}
    => (report.stage = "publish"
          <=> ~PreviousText \/ report.existingComment.body # report.mdProblems)

-----------------------------------------------------------------------------
(* Documents without a node of version "main": two dependencies, one of    *)
(* them without element id, and every list of edges between their ids.     *)

NoMainEdges ==
    { Edge(source, target) :
        source \in {Undefined, "SPDXRef-a", "NOTFOUND"},
        target \in {Undefined, "", "SPDXRef-a"} }

NoMainDocs ==
    { Sbom(<<Node("SPDXRef-a", "lodash", "1.0.0", Undefined),
             Node(Undefined, "react", "2.0.0", "GPL-3.0")>>, relationships) :
        relationships \in SeqsUpTo(NoMainEdges, MaxEdges) }

InitNoMain == InitOne(NoMainDocs)

SpecNoMain == InitNoMain /\ [][NextOne]_vars

(* C17: without a node of version "main" the root id is the empty string   *)
(* and every package is emitted as transitive, whatever the edges; the     *)
(* handler does not throw and the repository is counted as scanned.        *)
C17_NoMainAllTransitive ==
    \A u \in Units :
        /\ pc[u] # "rejected"
        /\ pc[u] = "resolving"
           => /\ work[u].mainSpdxId = ""
              /\ \A j \in 1..Len(work[u].lookups) :
                    work[u].lookups[j].stage = "done"
                    => work[u].lookups[j].pkg.isTransitiveDep
        /\ pc[u] \in {"count", "update"}
           => /\ res[u].kind = "result"
              /\ Len(res[u].packages) = 2
              /\ \A i \in 1..Len(res[u].packages) : res[u].packages[i].isTransitiveDep
        /\ pc[u] \in {"update", "settled", "finished"}
           => outcome[u] = [failed |-> 0, scanned |-> 1, affected |-> outcome[u].affected]

(* The repository is counted as scanned and its packages are emitted. *)
C17_Witness ==
    \E u \in Units :
        /\ pc[u] = "update"
        /\ nScanned = 1
        /\ res[u].kind = "result"
        /\ \A i \in 1..Len(res[u].packages) : res[u].packages[i].isTransitiveDep

-----------------------------------------------------------------------------
(* Lookups both of whose registry calls were rejected. *)

BothRejected(l) ==
    /\ Len(l.calls) >= 2
    /\ l.calls[1].result = "error"
    /\ l.calls[2].result = "error"

FailedLookups(u) ==
    IF pc[u] = "resolving"
    THEN {j \in 1..Len(work[u].lookups) : BothRejected(work[u].lookups[j])}
    ELSE {}

FailedPackages(u) ==
    IF res[u] # ResUndefined /\ res[u].kind = "result"
    THEN {i \in 1..Len(res[u].packages) : res[u].packages[i].resolveMode = "failed"}
    ELSE {}

(* C18: a lookup both of whose calls are rejected is done with licence     *)
(* "non-NPM" and resolveMode "failed" after exactly these two calls, and   *)
(* only such a lookup is failed; it never changes afterwards, the handler  *)
(* goes on to return one package per lookup, and the repository is counted *)
(* as scanned and not as failed.                                           *)
C18_FailureIsTerminal ==
    /\ [](\A u \in Units :
            /\ \A j \in FailedLookups(u) :
                  LET l == work[u].lookups[j]
                  IN  /\ l.stage = "done"
                      /\ Len(l.calls) = 2
                      /\ l.calls[1].scope = "version"
                      /\ l.calls[2].scope = "latest"
                      /\ l.pkg.license = "non-NPM"
                      /\ l.pkg.resolveMode = "failed"
                      /\ l.pkg.name = l.dep.name
            /\ pc[u] = "resolving"
               => \A j \in 1..Len(work[u].lookups) :
                     (work[u].lookups[j].stage = "done"
                        /\ work[u].lookups[j].pkg.resolveMode = "failed")
                     => j \in FailedLookups(u)
            /\ \A i \in FailedPackages(u) : res[u].packages[i].license = "non-NPM"
            /\ (FailedPackages(u) # {} /\ pc[u] = "update")
               => outcome[u].scanned = 1 /\ outcome[u].failed = 0)
    /\ [][\A u \in Units :
            FailedLookups(u) # {}
            => /\ pc'[u] \in {"resolving", "count"}
               /\ pc'[u] = "resolving"
                  => \A j \in FailedLookups(u) : work'[u].lookups[j] = work[u].lookups[j]
               /\ pc'[u] = "count"
                  => /\ res'[u].kind = "result"
                     /\ Len(res'[u].packages) = Len(work[u].lookups)
                     /\ \A j \in 1..Len(work[u].lookups) :
                           res'[u].packages[j] = work[u].lookups[j].pkg]_vars

(* A repository counted as scanned whose packages are a failed one and one *)
(* with a licence.                                                         *)
C18_Witness ==
    \E u \in Units :
        /\ pc[u] = "update"
        /\ nScanned = 1
        /\ nFailed = 0
        /\ FailedPackages(u) # {}
        /\ \E i \in 1..Len(res[u].packages) :
              res[u].packages[i].resolveMode \in {"explicit", "npmCurrVer", "npmLatestVer"}

-----------------------------------------------------------------------------
(* The repositories that have an entry in one of the two maps. *)

AffectedRepos ==
    {e.leaf.repo : e \in Leaves(blacklistMap) \cup Leaves(noLicenseMap)}

(* C19: nAffected is the number of distinct repositories with an entry in   *)
(* one of the two maps; a repository is counted at most once, only if it    *)
(* was counted as scanned, and exactly when it has an entry; nAffected      *)
(* never exceeds nScanned.                                                  *)
C19_AffectedCount ==
    /\ nAffected = Cardinality(AffectedRepos)
    /\ nAffected <= nScanned
    /\ \A u \in Units :
          /\ outcome[u].affected <= 1
          /\ outcome[u].affected <= outcome[u].scanned
          /\ outcome[u].affected = 1 <=> EntriesOf(u) # NoEntries
          /\ outcome[u].affected = 1 <=> RepoName(u) \in AffectedRepos

(* The batch is complete; a repository with two entries is counted once    *)
(* and another scanned repository is not affected.                         *)
C19_Witness ==
    /\ phase = "serialized"
    /\ nAffected < nScanned
    /\ \E u \in Units :
          /\ outcome[u].affected = 1
          /\ Cardinality(EntriesIn(blacklistMap, u) \cup EntriesIn(noLicenseMap, u)) >= 2

-----------------------------------------------------------------------------
(* The packages of a result that the update of the maps inserts. *)

IntoNoLicenseMap(pkg) == ~MatchesAny(pkg.name) /\ pkg.license = "Unknown"

IntoBlacklistMap(pkg) ==
    ~MatchesAny(pkg.name) /\ pkg.license # "Unknown" /\ Blacklisted(pkg.license)

(* The leaves a step adds to a map are exactly one leaf per package of the  *)
(* given indices, under its name, licence and version; the leaves the map   *)
(* had stay where they were.                                                *)
InsertsExactly(map, mapAfter, repo, packages, indices) ==
    LET new == Leaves(mapAfter) \ Leaves(map)
        LeavesOf(i) ==
            {e \in new :
                /\ e.name = packages[i].name
                /\ e.license = packages[i].license
                /\ e.version = packages[i].version
                /\ e.leaf = [repo |-> repo, resolveMode |-> packages[i].resolveMode,
                             isTransitiveDep |-> packages[i].isTransitiveDep]}
    IN  /\ Leaves(map) \subseteq Leaves(mapAfter)
        /\ Cardinality(new) = Cardinality(indices)
        /\ \A i \in indices : Cardinality(LeavesOf(i)) = 1

SameEntries(map, mapAfter) ==
    /\ Entries(mapAfter) = Entries(map)
    /\ Cardinality(Leaves(mapAfter)) = Cardinality(Leaves(map))

(* C20: whatever the order in which the units update the maps, a step of    *)
(* a unit adds exactly one leaf {repo, resolveMode, isTransitiveDep} per    *)
(* inserted package under its name, licence and version and leaves every    *)
(* earlier leaf in place; no other step adds or removes an entry; and no    *)
(* map holds two leaves for the same finding.                               *)
C20_InsertsNeverLost ==
    /\ [](/\ Cardinality(Leaves(blacklistMap)) = Cardinality(Entries(blacklistMap))
          /\ Cardinality(Leaves(noLicenseMap)) = Cardinality(Entries(noLicenseMap)))
    /\ [][IF \E u \in Units : Updates(u) /\ res[u].kind = "result"
          THEN \A u \in Units :
                  Updates(u)
                  => LET packages == res[u].packages
                         all == 1..Len(packages)
                     IN  /\ InsertsExactly(blacklistMap, blacklistMap', RepoName(u), packages,
                                           {i \in all : IntoBlacklistMap(packages[i])})
                         /\ InsertsExactly(noLicenseMap, noLicenseMap', RepoName(u), packages,
                                           {i \in all : IntoNoLicenseMap(packages[i])})
          ELSE /\ SameEntries(blacklistMap, blacklistMap')
               /\ SameEntries(noLicenseMap, noLicenseMap')]_vars

(* After the batch a version of a package holds the leaves of two          *)
(* repositories, and both maps have entries.                               *)
C20_Witness ==
    /\ phase = "serialized"
    /\ \E e \in Leaves(blacklistMap) : e.at = 2
    /\ noLicenseMap # <<>>

-----------------------------------------------------------------------------
(* The leaves of both maps, each with the map that holds it. *)

AllLeaves ==
    { [map |-> "blacklistMap", entry |-> e] : e \in Leaves(blacklistMap) }
        \cup { [map |-> "noLicenseMap", entry |-> e] : e \in Leaves(noLicenseMap) }

(* Two leaves of one innermost list. *)
SameList(x, y) ==
    /\ x.map = y.map
    /\ x.entry.name = y.entry.name
    /\ x.entry.license = y.entry.license
    /\ x.entry.version = y.entry.version

(* C21: in the two maps together a repository has at most one leaf for a    *)
(* package name, whatever units have completed; so the repositories of an   *)
(* innermost list are pairwise different and its sort by repository name    *)
(* compares no two equal names.                                             *)
C21_OneLeafPerRepoAndName ==
    \A x, y \in AllLeaves :
        /\ (x.entry.leaf.repo = y.entry.leaf.repo /\ x.entry.name = y.entry.name) => x = y
        /\ (SameList(x, y) /\ x # y)
           => /\ x.entry.leaf.repo # y.entry.leaf.repo
              /\ LocaleCompare(x.entry.leaf.repo, y.entry.leaf.repo) # 0

(* After the batch an innermost list holds two repositories whose documents *)
(* name the package on two nodes.                                           *)
C21_Witness ==
    /\ phase = "serialized"
    /\ \E x \in AllLeaves :
          /\ x.entry.name = "lodash"
          /\ x.entry.leaf.resolveMode = "explicit"
          /\ x.entry.at = 2

-----------------------------------------------------------------------------
(* Documents with products and nodes without a name: every list of nodes   *)
(* with or without an element id, a name (absent, empty or given), the      *)
(* version "main" or another one, and with or without an explicit licence.  *)

ProductNodes ==
    { Node(id, name, version, license) :
        id \in {Undefined, "SPDXRef-a", "SPDXRef-b"},
        name \in {Undefined, "", "lodash"},
        version \in {"main", "1.0.0"},
        license \in {Undefined, "GPL-3.0"} }

ProductDocs == { Sbom(packages, <<>>) : packages \in SeqsUpTo(ProductNodes, MaxPkgs) }

InitProduct ==
    /\ InitOne(ProductDocs)
    /\ licenseBlacklist = <<"GPL-3.0">>
    /\ ignorePackagesRegex = <<>>

SpecProduct == InitProduct /\ [][NextOne]_vars

(* A package that came from a named node that is not a product. *)
FromNamedDep(name, version) == Truthy(name) /\ version # "main"

(* C22: a node without a name (absent or empty) and a node of version       *)
(* "main" get no lookup and no registry call, are not among the packages    *)
(* the handler returns and have no entry in either map, whatever their      *)
(* explicit licence; the root id is the element id of the last node of      *)
(* version "main".                                                          *)
C22_ProductAndNamelessSkipped ==
    /\ \A u \in Resolving :
          LET packages == work[u].packages
              lookups == work[u].lookups
          IN  /\ work[u].mainSpdxId = RootId(packages)
              /\ Len(lookups) = Cardinality({packages[i].name : i \in NamedDeps(packages)})
              /\ \A j \in 1..Len(lookups) :
                    /\ FromNamedDep(lookups[j].dep.name, lookups[j].dep.versionInfo)
                    /\ \E i \in NamedDeps(packages) :
                          /\ packages[i].name = lookups[j].dep.name
                          /\ packages[i].versionInfo = lookups[j].dep.versionInfo
                          /\ packages[i].licenseConcluded = lookups[j].dep.licenseConcluded
                    /\ \A c \in 1..Len(lookups[j].calls) :
                          /\ lookups[j].calls[c].name = lookups[j].dep.name
                          /\ lookups[j].calls[c].version # "main"
                    /\ lookups[j].stage = "done"
                       => FromNamedDep(lookups[j].pkg.name, lookups[j].pkg.version)
    /\ \A u \in Units :
          (res[u] # ResUndefined /\ res[u].kind = "result")
          => \A i \in 1..Len(res[u].packages) :
                FromNamedDep(res[u].packages[i].name, res[u].packages[i].version)
    /\ \A x \in AllLeaves : FromNamedDep(x.entry.name, x.entry.version)

(* Two products with different element ids, both with a name and an        *)
(* explicit licence: no lookup, and the id of the second is the root id.   *)
C22_Witness ==
    \E u \in Resolving :
        LET packages == work[u].packages
        IN  /\ Len(packages) = 2
            /\ MainNodes(packages) = {1, 2}
            /\ packages[1].SPDXID = "SPDXRef-a"
            /\ packages[2].SPDXID = "SPDXRef-b"
            /\ \A i \in 1..2 : packages[i].name = "lodash"
                                /\ packages[i].licenseConcluded = "GPL-3.0"
            /\ work[u].lookups = <<>>
            /\ work[u].mainSpdxId = "SPDXRef-b"

====
